---- MODULE Spec2Model ----
(***************************************************************************)
(* A model of schedule.py: the day planner's application state, the        *)
(* edit-mode key handler handle_edit_input, and the main loop of main      *)
(* (render, run-mode clock check with its alerts, input wait).             *)
(***************************************************************************)
EXTENDS Integers, Sequences, FiniteSets, TLC

(* ---------------- program constants ---------------- *)
START_HOUR == 8
END_HOUR == 21
TOTAL_SLOTS == (END_HOUR - START_HOUR) * 2
MAX_TASKS == 5
NAME_CAP == 15
FINAL_BEEPS == 5

(* key codes: curses' values for the special keys, ASCII for the others *)
KEY_DOWN == 258
KEY_UP == 259
KEY_LEFT == 260
KEY_RIGHT == 261
KEY_BACKSPACE == 263
KEY_F5 == 269
KEY_ENTER == 343
KEY_TAB == 9
KEY_LF == 10
KEY_CR == 13
KEY_DEL == 127
KEY_BS == 8
KEY_SPACE == 32
KEY_r == 114
KEY_R == 82
KEY_q == 113
KEY_Q == 81
PRINT_LO == 32
PRINT_HI == 126
TIMEOUT == -1
UNSEEN == -1

(* ---------------- bounds of the exploration ---------------- *)
\* slots are toggled, and F5 is pressed, only with the cursor in columns
\* 0..MaxMarkCol of a row that is edited
MaxMarkCol == 1
\* F5 is pressed only while the store holds at most MaxRunContent name
\* characters and marked slots
MaxRunContent == 1
\* the wall clock is read at minutes 0..MaxMinute of the sampled hours
MaxMinute == 1

\* the row whose task is edited: the last
EditRow == MAX_TASKS - 1

\* the wall-clock readings, as minutes of the day: the hour before the window,
\* its first and its last hour, and the hour after it
SampleHours == {START_HOUR - 1, START_HOUR, END_HOUR - 1, END_HOUR}
ClockTimes == {h * 60 + m : h \in SampleHours, m \in 0..MaxMinute}

\* the text typed into a name: its characters in turn, whatever the row; any
\* character is typed onto a full name (and dropped)
SampleText == <<KEY_q, KEY_Q, KEY_SPACE, KEY_r, KEY_R>>
SampleChar(n) == SampleText[(n % Len(SampleText)) + 1]

\* the key codes getch returns; 27 (Esc) is a code no branch knows
Keys ==
  {KEY_F5, KEY_TAB, KEY_UP, KEY_DOWN, KEY_LEFT, KEY_RIGHT, KEY_LF, KEY_CR,
   KEY_ENTER, KEY_BACKSPACE, KEY_DEL, KEY_BS, KEY_SPACE, KEY_r, KEY_R,
   KEY_q, KEY_Q, 27}

(* ---------------- Python list and integer helpers ---------------- *)
Min(a, b) == IF a < b THEN a ELSE b
Max(a, b) == IF a > b THEN a ELSE b

\* x in lst
InList(x, lst) == \E i \in 1..Len(lst) : lst[i] = x

ListRemovePop(lst, x) == IF lst = <<>> THEN <<>> ELSE SubSeq(lst, 1, Len(lst) - 1)

\* lst.remove(x): drops the first occurrence of x
RECURSIVE ListRemove(_, _)
ListRemove(lst, x) ==
  IF lst = <<>> THEN <<>>
  ELSE IF Head(lst) = x THEN Tail(lst)
  ELSE <<Head(lst)>> \o ListRemove(Tail(lst), x)

\* s[:-1]
DropLast(s) == IF s = <<>> THEN <<>> ELSE SubSeq(s, 1, Len(s) - 1)

(* ---------------- the data model ---------------- *)
Task == [name |-> <<>>, slots |-> <<>>, rest_slots |-> <<>>]

\* AppState(): five empty tasks, cursor at (0, 0), edit mode, focus on the name
AppState ==
  [tasks |-> [i \in 1..MAX_TASKS |-> Task],
   cursor_row |-> 0,
   cursor_col |-> 0,
   mode |-> "edit",
   edit_focus |-> "name"]

\* state.tasks[row]
TaskAt(st, row) == st.tasks[row + 1]

SetTask(st, row, t) == [st EXCEPT !.tasks[row + 1] = t]

(* ---------------- TimeGrid ---------------- *)
\* a wall-clock reading is a minute of the day
Hour(t) == t \div 60
Minute(t) == t % 60

get_current_slot_late(t) ==
  IF Hour(t) < START_HOUR \/ Hour(t) > END_HOUR THEN -1
  ELSE ((Hour(t) - START_HOUR) * 60 + Minute(t)) \div 30

get_current_slot(t) ==
  IF Hour(t) < START_HOUR \/ Hour(t) >= END_HOUR THEN -1
  ELSE ((Hour(t) - START_HOUR) * 60 + Minute(t)) \div 30

get_elapsed_time_clamped(t) ==
  IF Hour(t) < START_HOUR \/ Hour(t) >= END_HOUR THEN <<0, 0>>
  ELSE LET minutes_from_start == (Hour(t) - START_HOUR) * 60 + Minute(t)
       IN <<minutes_from_start \div 60, ((minutes_from_start % 60) \div 30) * 3>>

\* (hours, half_hours * 3) since the start of the day
get_elapsed_time(t) ==
  IF Hour(t) < START_HOUR THEN <<0, 0>>
  ELSE LET minutes_from_start == (Hour(t) - START_HOUR) * 60 + Minute(t)
       IN <<minutes_from_start \div 60, ((minutes_from_start % 60) \div 30) * 3>>

(* ---------------- format_slot_bar ---------------- *)
\* the glyphs of a slot
EMPTY == "empty"
CURRENT == "current"
FILLED == "filled"
REST == "rest"
BLANK == " "

SlotCharNoCurrent(slots, rest_slots, current_slot, is_running, i) ==
  IF InList(i, rest_slots) THEN REST
  ELSE IF InList(i, slots)
    THEN IF is_running
           THEN IF i <= current_slot THEN FILLED ELSE EMPTY
           ELSE EMPTY
  ELSE BLANK

\* the char chosen for slot i
SlotChar(slots, rest_slots, current_slot, is_running, i) ==
  IF InList(i, rest_slots) THEN REST
  ELSE IF InList(i, slots)
    THEN IF is_running
           THEN IF i < current_slot THEN FILLED
                ELSE IF i = current_slot THEN CURRENT
                ELSE EMPTY
           ELSE EMPTY
  ELSE BLANK

\* the loop over the slots from i on: char * 2, and "." after all but the last
RECURSIVE BarFrom(_, _, _, _, _)
BarFrom(slots, rest_slots, current_slot, is_running, i) ==
  IF i >= TOTAL_SLOTS THEN <<>>
  ELSE LET char == SlotChar(slots, rest_slots, current_slot, is_running, i)
       IN <<char, char>> \o (IF i < TOTAL_SLOTS - 1 THEN <<".">> ELSE <<>>)
            \o BarFrom(slots, rest_slots, current_slot, is_running, i + 1)

\* the string returned, as the sequence of its characters
format_slot_bar(slots, rest_slots, current_slot, is_running) ==
  BarFrom(slots, rest_slots, current_slot, is_running, 0)

\* draw_interface's count for the prefix of the left panel
total_task_slots(task) == Len(task.slots) + Len(task.rest_slots)

(* ---------------- handle_edit_input ---------------- *)
IsTab(key) == key = KEY_TAB
IsEnter(key) == key = KEY_LF \/ key = KEY_ENTER \/ key = KEY_CR
IsBackspace(key) == key = KEY_BACKSPACE \/ key = KEY_DEL \/ key = KEY_BS
IsPrintable(key) == PRINT_LO <= key /\ key <= PRINT_HI
IsRestKey(key) == key = KEY_r \/ key = KEY_R

ToggleFocusOneWay(f) == "slots"
ToggleFocus(f) == IF f = "name" THEN "slots" ELSE "name"
RowUp(row) == Max(0, row - 1)
RowDown(row) == Min(MAX_TASKS - 1, row + 1)
ColLeft(col) == Max(0, col - 1)
ColRightNoClamp(col) == col + 1
ColRight(col) == Min(TOTAL_SLOTS - 1, col + 1)

NameBackspace(t) == [t EXCEPT !.name = DropLast(t.name)]

NameTypeOffByOne(t, key) ==
  IF Len(t.name) <= NAME_CAP THEN [t EXCEPT !.name = Append(t.name, key)] ELSE t

NameType(t, key) ==
  IF Len(t.name) < NAME_CAP THEN [t EXCEPT !.name = Append(t.name, key)] ELSE t

ToggleWorkKeepsRest(t, col) ==
  IF InList(col, t.slots) THEN [t EXCEPT !.slots = ListRemove(t.slots, col)]
  ELSE [t EXCEPT !.slots = Append(t.slots, col)]

ToggleWork(t, col) ==
  IF InList(col, t.slots) THEN [t EXCEPT !.slots = ListRemove(t.slots, col)]
  ELSE IF InList(col, t.rest_slots)
    THEN [t EXCEPT !.rest_slots = ListRemove(t.rest_slots, col),
                   !.slots = Append(t.slots, col)]
  ELSE [t EXCEPT !.slots = Append(t.slots, col)]

ToggleRestKeepsWork(t, col) ==
  IF InList(col, t.rest_slots)
    THEN [t EXCEPT !.rest_slots = ListRemove(t.rest_slots, col)]
  ELSE [t EXCEPT !.rest_slots = Append(t.rest_slots, col)]

ToggleRestAppends(t, col) == [t EXCEPT !.rest_slots = Append(t.rest_slots, col)]

ToggleRest(t, col) ==
  IF InList(col, t.rest_slots)
    THEN [t EXCEPT !.rest_slots = ListRemove(t.rest_slots, col)]
  ELSE IF InList(col, t.slots)
    THEN [t EXCEPT !.slots = ListRemove(t.slots, col),
                   !.rest_slots = Append(t.rest_slots, col)]
  ELSE [t EXCEPT !.rest_slots = Append(t.rest_slots, col)]

\* what a call of handle_edit_input leaves: the state and the returned value
Result(st, ret) == [state |-> st, ret |-> ret]

\* the branch taken with edit_focus = 'name'
EditName(st, key) ==
  IF IsEnter(key)
    THEN Result([st EXCEPT !.cursor_row = RowDown(st.cursor_row)], FALSE)
  ELSE IF IsBackspace(key)
    THEN Result(SetTask(st, st.cursor_row, NameBackspace(TaskAt(st, st.cursor_row))), FALSE)
  ELSE IF IsPrintable(key)
    THEN Result(SetTask(st, st.cursor_row, NameType(TaskAt(st, st.cursor_row), key)), FALSE)
  ELSE Result(st, FALSE)

SlotsOtherBackspace(st, key) ==
  IF IsBackspace(key)
    THEN Result(SetTask(st, st.cursor_row, NameBackspace(TaskAt(st, st.cursor_row))), FALSE)
  ELSE Result(st, FALSE)

\* a key the slots branch does not know falls through to the final return False
SlotsOther(st, key) == Result(st, FALSE)

\* the branch taken with edit_focus = 'slots'
EditSlots(st, key) ==
  IF key = KEY_LEFT
    THEN Result([st EXCEPT !.cursor_col = ColLeft(st.cursor_col)], FALSE)
  ELSE IF key = KEY_RIGHT
    THEN Result([st EXCEPT !.cursor_col = ColRight(st.cursor_col)], FALSE)
  ELSE IF key = KEY_SPACE
    THEN Result(SetTask(st, st.cursor_row,
                        ToggleWork(TaskAt(st, st.cursor_row), st.cursor_col)), FALSE)
  ELSE IF IsRestKey(key)
    THEN Result(SetTask(st, st.cursor_row,
                        ToggleRest(TaskAt(st, st.cursor_row), st.cursor_col)), FALSE)
  ELSE SlotsOther(st, key)

OnF5ResetsFocus(st) == Result([st EXCEPT !.edit_focus = "name"], TRUE)

\* if key == curses.KEY_F5: return True
OnF5(st) == Result(st, TRUE)

handle_edit_input(st, key) ==
  IF key = KEY_F5 THEN OnF5(st)
  ELSE IF IsTab(key)
    THEN Result([st EXCEPT !.edit_focus = ToggleFocus(st.edit_focus)], FALSE)
  ELSE IF key = KEY_UP
    THEN Result([st EXCEPT !.cursor_row = RowUp(st.cursor_row)], FALSE)
  ELSE IF key = KEY_DOWN
    THEN Result([st EXCEPT !.cursor_row = RowDown(st.cursor_row)], FALSE)
  ELSE IF st.edit_focus = "name" THEN EditName(st, key)
  ELSE EditSlots(st, key)

(* ---------------- main ---------------- *)
VARIABLES
  state,        \* the AppState
  last_minute,  \* main's last_minute
  now,          \* main's now, a minute of the day; -1 while unassigned
  pc,           \* "loop" while main's loop runs, "done" once it is left
  clock,        \* the latest wall-clock reading (that of get_current_slot), -1 before the first
  emitted       \* what the latest loop iteration did, in order:
                \* "draw", "minute" (alert), "final" (alert), "getch"

vars == <<state, last_minute, now, pc, clock, emitted>>

Init ==
  /\ state = AppState
  /\ last_minute = UNSEEN
  /\ now = -1
  /\ pc = "loop"
  /\ clock = -1
  /\ emitted = <<>>

Content(t) == Len(t.name) + Len(t.slots) + Len(t.rest_slots)

RECURSIVE StoreContent(_, _)
StoreContent(st, n) ==
  IF n = 0 THEN 0 ELSE Content(st.tasks[n]) + StoreContent(st, n - 1)

\* the cursor is in the row that is edited
OnEditRow(st) == st.cursor_row = EditRow

\* the keys the exploration presses in edit mode
Pressed(key) ==
  IF key = KEY_F5
    THEN /\ StoreContent(state, MAX_TASKS) <= MaxRunContent
         /\ OnEditRow(state) /\ state.cursor_col <= MaxMarkCol
  ELSE IF IsTab(key) \/ key = KEY_UP \/ key = KEY_DOWN THEN TRUE
  ELSE IF state.edit_focus = "name"
    THEN \/ ~IsPrintable(key)
         \/ /\ OnEditRow(state)
            /\ \/ key = SampleChar(Len(TaskAt(state, state.cursor_row).name))
               \/ Len(TaskAt(state, state.cursor_row).name) >= NAME_CAP
  ELSE \/ ~(key = KEY_SPACE \/ IsRestKey(key))
       \/ OnEditRow(state) /\ state.cursor_col <= MaxMarkCol

\* if now.minute != last_minute: last_minute = now.minute; beep()
MinuteChangedWrongVar(t, last) == Minute(t) # UNSEEN
MinuteChanged(t, last) == Minute(t) # last
MinuteAlert(t, last) == IF MinuteChanged(t, last) THEN <<"minute">> ELSE <<>>
NextLastMinute(t, last) == IF MinuteChanged(t, last) THEN Minute(t) ELSE last

\* if current_slot == -1 or current_slot >= TOTAL_SLOTS: five beeps, break
DayOverLate(slot) == slot >= TOTAL_SLOTS
DayOverBoth(slot) == slot = -1 /\ slot >= TOTAL_SLOTS
DayOver(slot) == slot = -1 \/ slot >= TOTAL_SLOTS
FinalAlerts(slot) == IF DayOver(slot) THEN [i \in 1..FINAL_BEEPS |-> "final"] ELSE <<>>

\* the run-mode block of an iteration: now = datetime.now(), and
\* get_current_slot() reads the clock once more
RunAlerts(t, later, last) ==
  MinuteAlert(t, last) \o FinalAlerts(get_current_slot(later))

\* if key == ord('q') or key == ord('Q'): break
IsQuitLower(key) == key = KEY_q
IsQuit(key) == key = KEY_q \/ key = KEY_Q

\* where the loop is after getch returned key in run mode
AfterRunKey(key) == IF key # TIMEOUT /\ IsQuit(key) THEN "done" ELSE "loop"

\* the else branch of main's dispatch: a key in run mode leaves the state alone
RunKeyBackToEdit(st, key) == IF key = KEY_F5 THEN [st EXCEPT !.mode = "edit"] ELSE st
RunKeyState(st, key) == st

\* if handle_edit_input(state, key): state.mode = 'run'; last_minute = -1
AfterEditAlwaysRun(st, ret) == [st EXCEPT !.mode = "run"]
AfterEdit(st, ret) == IF ret THEN [st EXCEPT !.mode = "run"] ELSE st
AfterEditMinuteZero(last, ret) == IF ret THEN 0 ELSE last
AfterEditMinute(last, ret) == IF ret THEN UNSEEN ELSE last

\* one iteration of the loop in edit mode: draw, getch; key is TIMEOUT or a key
EditIteration(key) ==
  /\ emitted' = <<"draw", "getch">>
  /\ pc' = "loop"
  /\ UNCHANGED <<clock, now>>
  /\ IF key = TIMEOUT
       THEN UNCHANGED <<state, last_minute>>
       ELSE /\ Pressed(key)
            /\ LET r == handle_edit_input(state, key)
               IN /\ state' = AfterEdit(r.state, r.ret)
                  /\ last_minute' = AfterEditMinute(last_minute, r.ret)

\* one iteration of the loop in run mode: draw, the clock check with its alerts,
\* then, unless the day is over, getch; t is main's now, later the reading of
\* get_current_slot, key is TIMEOUT or a key (no key is read once the day is over)
RunIteration(t, later, key) ==
  /\ now' = t
  /\ clock' = later
  /\ last_minute' = NextLastMinute(t, last_minute)
  /\ IF DayOver(get_current_slot(later))
       THEN /\ key = TIMEOUT
            /\ emitted' = <<"draw">> \o RunAlerts(t, later, last_minute)
            /\ pc' = "done"
            /\ UNCHANGED state
       ELSE /\ emitted' = <<"draw">> \o RunAlerts(t, later, last_minute) \o <<"getch">>
            /\ pc' = AfterRunKey(key)
            /\ state' = IF key = TIMEOUT THEN state ELSE RunKeyState(state, key)

\* the loop of main: while True
EditLoop ==
  /\ pc = "loop"
  /\ state.mode = "edit"
  /\ \E key \in Keys \cup {TIMEOUT} : EditIteration(key)

\* the readings of the wall clock never go back; those draw_interface takes for
\* the display change nothing and are left out
RunLoop ==
  /\ pc = "loop"
  /\ state.mode = "run"
  /\ \E t \in ClockTimes : \E later \in ClockTimes :
       /\ clock <= t /\ t <= later
       /\ \E key \in Keys \cup {TIMEOUT} : RunIteration(t, later, key)

Next == EditLoop \/ RunLoop

Spec == Init /\ [][Next]_vars

\* a run-mode iteration that finds the wall clock further on than the one
\* before, or ends the loop
Advance == RunLoop /\ (clock' > clock \/ pc' = "done")

\* the loop under a wall clock that advances: getch returns within its timeout
\* of 2 s (stdscr.timeout(2000)), so the iterations go on and the clock moves on
FairSpec == Init /\ [][Next]_vars /\ WF_vars(Advance)

(* ---------------- the process: the __main__ block around main ---------------- *)
\* how the process ends: sys.exit(status), or status 0 when the script runs off
\* its end
Exit(status) == [exit |-> status]

\* before the check of sys.stdin.isatty()
ProcInit ==
  /\ state = AppState
  /\ last_minute = UNSEEN
  /\ now = -1
  /\ pc = "start"
  /\ clock = -1
  /\ emitted = <<>>

\* if not sys.stdin.isatty(): print(...); sys.exit(1)
NoTerminal ==
  /\ pc = "start"
  /\ pc' = "exited"
  /\ emitted' = <<"print no terminal", Exit(1)>>
  /\ UNCHANGED <<state, last_minute, now, clock>>

\* curses.wrapper(main) up to main's loop
EnterMain ==
  /\ pc = "start"
  /\ pc' = "loop"
  /\ state' = AppState
  /\ last_minute' = UNSEEN
  /\ UNCHANGED <<now, clock, emitted>>

\* main returned: print("... завершена!"), and the script ends
Completed ==
  /\ pc = "done"
  /\ pc' = "exited"
  /\ emitted' = <<"print completed", Exit(0)>>
  /\ UNCHANGED <<state, last_minute, now, clock>>

\* except KeyboardInterrupt: print(...), and the script ends
Interrupted ==
  /\ pc = "loop"
  /\ pc' = "exited"
  /\ emitted' = <<"print interrupted", Exit(0)>>
  /\ UNCHANGED <<state, last_minute, now, clock>>

\* except Exception as e: print(f"... {e}"), and the script ends: an exception
\* that left curses.wrapper(main), such as a curses.error of curs_set, clear or
\* refresh, which main does not catch
Failed ==
  /\ pc = "loop"
  /\ pc' = "exited"
  /\ emitted' = <<"print error", Exit(0)>>
  /\ UNCHANGED <<state, last_minute, now, clock>>

ProcNext ==
  NoTerminal \/ EnterMain \/ EditLoop \/ RunLoop \/ Completed \/ Interrupted \/ Failed

ProcSpec == ProcInit /\ [][ProcNext]_vars

(* ---------------- the clock functions on their own ---------------- *)
\* every reading datetime.now() can give, as a minute of the day
DayMinutes == 0..(24 * 60 - 1)

\* a call and the value it returned
Call(name, ret) == [call |-> name, ret |-> ret]

\* the clock stands at any minute of the day; nothing else has happened
TimeInit ==
  /\ state = AppState
  /\ last_minute = UNSEEN
  /\ now = -1
  /\ pc = "loop"
  /\ clock \in DayMinutes
  /\ emitted = <<>>

CallCurrentSlot ==
  /\ emitted' = <<Call("get_current_slot", get_current_slot(clock))>>
  /\ UNCHANGED <<state, last_minute, now, pc, clock>>

CallElapsedTime ==
  /\ emitted' = <<Call("get_elapsed_time", get_elapsed_time(clock))>>
  /\ UNCHANGED <<state, last_minute, now, pc, clock>>

TimeNext == CallCurrentSlot \/ CallElapsedTime

TimeSpec == TimeInit /\ [][TimeNext]_vars

(* ---------------- format_slot_bar on its own ---------------- *)
\* the first task is marked in columns 0..MaxBarCol and in the last column
MaxBarCol == 2
BarCols == (0..MaxBarCol) \cup {TOTAL_SLOTS - 1}

\* the columns from i on that mark gives kind, in the order they were marked
RECURSIVE MarkedFrom(_, _, _)
MarkedFrom(mark, kind, i) ==
  IF i >= TOTAL_SLOTS THEN <<>>
  ELSE (IF i \in BarCols /\ mark[i] = kind THEN <<i>> ELSE <<>>)
         \o MarkedFrom(mark, kind, i + 1)

\* the readings that give every value of get_current_slot: 07:45, a quarter past
\* the start of every slot, 21:15
BarTimes == {START_HOUR * 60 - 15 + 30 * k : k \in 0..(TOTAL_SLOTS + 1)}

\* a store whose first task has each column of BarCols unmarked, work or rest
BarInit ==
  /\ \E mark \in [BarCols -> {"none", "work", "rest"}] :
       state = SetTask(AppState, 0,
                       [Task EXCEPT !.slots = MarkedFrom(mark, "work", 0),
                                    !.rest_slots = MarkedFrom(mark, "rest", 0)])
  /\ last_minute = UNSEEN
  /\ now = -1
  /\ pc = "loop"
  /\ clock \in BarTimes
  /\ emitted = <<>>

\* format_slot_bar(task.slots, task.rest_slots, current_slot, is_running) for
\* the task of a row, at the slot of the reading, running or not
CallFormatSlotBar ==
  /\ \E row \in 0..(MAX_TASKS - 1) : \E is_running \in BOOLEAN :
       emitted' = <<[call |-> "format_slot_bar",
                     row |-> row,
                     current_slot |-> get_current_slot(clock),
                     is_running |-> is_running,
                     ret |-> format_slot_bar(TaskAt(state, row).slots,
                                             TaskAt(state, row).rest_slots,
                                             get_current_slot(clock), is_running)]>>
  /\ UNCHANGED <<state, last_minute, now, pc, clock>>

BarNext == CallFormatSlotBar

BarSpec == BarInit /\ [][BarNext]_vars

(* ======================= the claims ======================= *)
ToSet(lst) == {lst[i] : i \in 1..Len(lst)}
CountOf(seq, x) == Cardinality({i \in 1..Len(seq) : seq[i] = x})
LastOf(seq) == seq[Len(seq)]
Abs(n) == IF n < 0 THEN -n ELSE n
CursorTask == TaskAt(state, state.cursor_row)

\* C1: in every reachable state no slot index is both in the work slots and in
\* the rest slots of the same task.
C1_WorkRestDisjoint ==
  \A i \in 1..MAX_TASKS :
    ToSet(state.tasks[i].slots) \cap ToSet(state.tasks[i].rest_slots) = {}

\* a named task that holds a work slot and a rest slot
C1_Witness ==
  \E i \in 1..MAX_TASKS :
    /\ state.tasks[i].slots # <<>>
    /\ state.tasks[i].rest_slots # <<>>
    /\ state.tasks[i].name # <<>>

\* C2: the mode is always edit or run; it leaves edit only by F5; once it is
\* run it stays run; the loop ends only from run mode, and nothing follows its end.
C2_ModeMachine ==
  [][/\ state.mode \in {"edit", "run"}
     /\ state'.mode \in {"edit", "run"}
     /\ state.mode = "run" => state'.mode = "run"
     /\ (state.mode = "edit" /\ state'.mode = "run") => EditIteration(KEY_F5)
     /\ pc' = "done" => state.mode = "run"
     /\ pc # "done"]_vars

\* run mode, after an iteration that read the clock and took a key or a timeout
C2_Witness ==
  /\ state.mode = "run"
  /\ pc = "loop"
  /\ now >= 0
  /\ LastOf(emitted) = "getch"

\* C3: a run-mode iteration whose get_current_slot() is -1 (or 26 and more)
\* ends the loop after a burst of exactly five end-of-day alerts, the last thing it
\* does (no input wait follows); nothing happens after the loop has ended.
C3_EndOfDay ==
  [][/\ ( /\ state.mode = "run"
          /\ pc = "loop"
          /\ \/ get_current_slot(clock') = -1
             \/ get_current_slot(clock') >= 26 )
        => /\ pc' = "done"
           /\ CountOf(emitted', "final") = 5
           /\ CountOf(emitted', "getch") = 0
           /\ CountOf(emitted', "draw") = 1
           /\ \A i \in 1..Len(emitted') :
                emitted'[i] = "final" <=> i > Len(emitted') - 5
     /\ pc # "done"]_vars

\* the loop has ended at or after 21:00, main's now still inside the window
C3_Witness ==
  /\ pc = "done"
  /\ Hour(clock) >= END_HOUR
  /\ Hour(now) < END_HOUR
  /\ CountOf(emitted, "final") = 5

\* C4: a run-mode iteration emits a per-minute alert exactly when the minute of
\* its now differs from last_minute, emits at most one, and leaves last_minute at
\* that minute.
C4_MinuteEdge ==
  [][(state.mode = "run" /\ pc = "loop")
       => /\ CountOf(emitted', "minute") = (IF now' % 60 # last_minute THEN 1 ELSE 0)
          /\ last_minute' = now' % 60]_vars

\* an iteration within the minute of the last alert: nothing but draw and getch
C4_Witness ==
  /\ state.mode = "run"
  /\ now >= 0
  /\ emitted = <<"draw", "getch">>

\* C5: the cursor stays in rows 0..4 and columns 0..25; every key moves it as
\* the table says, by at most one cell, and at a boundary it stays.
C5_CursorBounds ==
  /\ state.cursor_row \in 0..4
  /\ state.cursor_col \in 0..25
  /\ state.mode = "edit" =>
       \A key \in Keys :
         LET r == handle_edit_input(state, key).state
             row == state.cursor_row
             col == state.cursor_col
         IN /\ r.cursor_row \in 0..4
            /\ r.cursor_col \in 0..25
            /\ Abs(r.cursor_row - row) <= 1
            /\ Abs(r.cursor_col - col) <= 1
            /\ key = KEY_UP => r.cursor_row = (IF row = 0 THEN 0 ELSE row - 1)
            /\ (key = KEY_DOWN \/ (state.edit_focus = "name" /\ key \in {KEY_LF, KEY_CR, KEY_ENTER}))
                 => r.cursor_row = (IF row = 4 THEN 4 ELSE row + 1)
            /\ (state.edit_focus = "slots" /\ key = KEY_LEFT)
                 => r.cursor_col = (IF col = 0 THEN 0 ELSE col - 1)
            /\ (state.edit_focus = "slots" /\ key = KEY_RIGHT)
                 => r.cursor_col = (IF col = 25 THEN 25 ELSE col + 1)

\* the cursor in the last row and the last column
C5_Witness == state.cursor_row = 4 /\ state.cursor_col = 25

\* C6: every name has at most 15 characters and is what was typed, from its
\* first character on; with the focus on the name a printable key is appended to a
\* name shorter than 15 and dropped by a name of 15, and Backspace drops the last
\* character and leaves an empty name as it is.
C6_NameLength ==
  /\ \A i \in 1..MAX_TASKS :
       /\ Len(state.tasks[i].name) <= 15
       /\ \A n \in 1..Len(state.tasks[i].name) : state.tasks[i].name[n] = SampleChar(n - 1)
  /\ (state.mode = "edit" /\ state.edit_focus = "name") =>
       \A key \in Keys :
         LET r == handle_edit_input(state, key).state
             name == CursorTask.name
         IN /\ (key >= 32 /\ key <= 126) =>
                 r = SetTask(state, state.cursor_row,
                             [CursorTask EXCEPT !.name =
                                IF Len(name) = 15 THEN name ELSE name \o <<key>>])
            /\ key \in {KEY_BACKSPACE, KEY_DEL, KEY_BS} =>
                 /\ name = <<>> => r = state
                 /\ name # <<>> => TaskAt(r, state.cursor_row).name = SubSeq(name, 1, Len(name) - 1)

\* a name of 15 characters under the cursor, the focus on it
C6_Witness ==
  /\ state.mode = "edit"
  /\ state.edit_focus = "name"
  /\ Len(CursorTask.name) = 15

\* C7: in edit mode, in either focus, handle_edit_input returns True for F5, leaving
\* the state as it is, and returns False for every other key.
C7_F5StartsRun ==
  state.mode = "edit" =>
    \A key \in Keys :
      LET r == handle_edit_input(state, key)
      IN /\ r.ret <=> key = 269
         /\ key = 269 => r.state = state

\* run mode, entered from the slots focus with something in the store
C7_Witness ==
  /\ state.mode = "run"
  /\ state.edit_focus = "slots"
  /\ StoreContent(state, MAX_TASKS) > 0

\* the keys outside the transition table of the focus
C8_Unrecognized(focus, key) ==
  IF focus = "name"
    THEN /\ key \notin {KEY_F5, KEY_TAB, KEY_UP, KEY_DOWN, KEY_LF, KEY_CR, KEY_ENTER,
                        KEY_BACKSPACE, KEY_DEL, KEY_BS}
         /\ ~(key >= 32 /\ key <= 126)
    ELSE key \notin {KEY_F5, KEY_TAB, KEY_UP, KEY_DOWN, KEY_LEFT, KEY_RIGHT,
                     KEY_SPACE, KEY_r, KEY_R}

\* C8: in edit mode a key outside the transition table of the current focus
\* leaves the whole state (tasks, cursor, focus, mode) as it is and returns False.
C8_UnrecognizedIgnored ==
  state.mode = "edit" =>
    \A key \in Keys :
      C8_Unrecognized(state.edit_focus, key) =>
        /\ handle_edit_input(state, key) = [state |-> state, ret |-> FALSE]
        /\ AfterEdit(handle_edit_input(state, key).state,
                     handle_edit_input(state, key).ret) = state

\* the slots focus on a task that has a name and a marked slot
C8_Witness ==
  /\ state.mode = "edit"
  /\ state.edit_focus = "slots"
  /\ CursorTask.name # <<>>
  /\ CursorTask.slots # <<>>

\* C9: in run mode the state is never changed; an iteration inside the window
\* ends the loop exactly when getch returned q or Q, its input wait being the last
\* thing done (no alert, no render after it); nothing follows the end of the loop.
C9_RunQuit ==
  [][state.mode = "run" =>
       /\ state' = state
       /\ pc = "loop"
       /\ get_current_slot(clock') \in 0..25 =>
            /\ LastOf(emitted') = "getch"
            /\ CountOf(emitted', "final") = 0
            /\ pc' = "done" =>
                 \A key \in Keys \cup {TIMEOUT} :
                   RunIteration(now', clock', key) => key \in {113, 81}
            /\ pc' # "done" =>
                 \A key \in {113, 81} : ~RunIteration(now', clock', key)]_vars

\* the loop has ended by a quit key, the store not empty
C9_Witness ==
  /\ pc = "done"
  /\ LastOf(emitted) = "getch"
  /\ StoreContent(state, MAX_TASKS) > 0

C10_After(st, key) == handle_edit_input(st, key).state

\* C10: with the focus on the slots, Space on slot s of the task under the cursor
\* removes s from work if it is there, else moves it from rest to work or adds it to
\* work; r and R do the same with work and rest exchanged; every other slot keeps
\* its marking; from an unmarked slot Space, R, Space leaves s in work, not in rest.
C10_ToggleSemantics ==
  (state.mode = "edit" /\ state.edit_focus = "slots") =>
    LET s == state.cursor_col
        work == ToSet(CursorTask.slots)
        rest == ToSet(CursorTask.rest_slots)
        sp == TaskAt(C10_After(state, KEY_SPACE), state.cursor_row)
        seq3 == TaskAt(C10_After(C10_After(C10_After(state, KEY_SPACE), KEY_r), KEY_SPACE),
                       state.cursor_row)
    IN /\ ToSet(sp.slots) = (IF s \in work THEN work \ {s} ELSE work \cup {s})
       /\ ToSet(sp.rest_slots) = (IF s \in work THEN rest ELSE rest \ {s})
       /\ \A key \in {KEY_r, KEY_R} :
            LET rk == TaskAt(C10_After(state, key), state.cursor_row)
            IN /\ ToSet(rk.rest_slots) = (IF s \in rest THEN rest \ {s} ELSE rest \cup {s})
               /\ ToSet(rk.slots) = (IF s \in rest THEN work ELSE work \ {s})
       /\ (s \notin work /\ s \notin rest) =>
            (s \in ToSet(seq3.slots) /\ s \notin ToSet(seq3.rest_slots))

\* the cursor on a work slot of a task that also holds a rest slot
C10_Witness ==
  /\ state.mode = "edit"
  /\ state.edit_focus = "slots"
  /\ InList(state.cursor_col, CursorTask.slots)
  /\ CursorTask.rest_slots # <<>>

\* toggle_work(t, s) applied twice, as two Space keys on slot s
C11_Twice(t, s) == ToggleWork(ToggleWork(t, s), s)

\* C11: for the task under the cursor and every slot s, two toggle_work(t, s) in
\* succession leave the set of work slots as it was; they leave the whole task as
\* it was exactly when s was not a rest slot before, and a slot that was a rest
\* slot is left unmarked; two Space keys in the slots focus do just that to the
\* slot under the cursor and change nothing else.
C11_DoubleToggle ==
  /\ \A s \in 0..25 :
       LET t0 == CursorTask
           t2 == C11_Twice(t0, s)
           same == /\ ToSet(t2.slots) = ToSet(t0.slots)
                   /\ ToSet(t2.rest_slots) = ToSet(t0.rest_slots)
                   /\ t2.name = t0.name
       IN /\ ToSet(t2.slots) = ToSet(t0.slots)
          /\ same <=> s \notin ToSet(t0.rest_slots)
          /\ s \in ToSet(t0.rest_slots) =>
               /\ s \notin ToSet(t2.slots) \cup ToSet(t2.rest_slots)
               /\ ToSet(t2.rest_slots) = ToSet(t0.rest_slots) \ {s}
  /\ (state.mode = "edit" /\ state.edit_focus = "slots") =>
       LET r1 == handle_edit_input(state, KEY_SPACE).state
           r2 == handle_edit_input(r1, KEY_SPACE).state
       IN r2 = SetTask(state, state.cursor_row, C11_Twice(CursorTask, state.cursor_col))

\* the cursor on an unmarked slot of a task that holds a work slot and a rest
\* slot: where two Space keys on a rest slot lead
C11_Witness ==
  /\ state.mode = "edit"
  /\ state.edit_focus = "slots"
  /\ ~InList(state.cursor_col, CursorTask.slots)
  /\ ~InList(state.cursor_col, CursorTask.rest_slots)
  /\ CursorTask.slots # <<>>
  /\ state.cursor_col <= MaxMarkCol

\* the latest call was one of the named function
LatestCall(name) == emitted # <<>> /\ emitted[1].call = name

\* C12: get_current_slot at any minute of the day returns -1 when the hour is
\* below 8 or at least 21; otherwise the half hour since 08:00 the minute lies in,
\* a value of 0..25: 0 at 08:00, 25 from 20:30 up to 21:00; never 26 or more.
C12_CurrentSlot ==
  LatestCall("get_current_slot") =>
    LET v == emitted[1].ret
        hour == clock \div 60
        since == clock - 8 * 60
    IN /\ (hour < 8 \/ hour >= 21) => v = -1
       /\ ~(hour < 8 \/ hour >= 21) =>
            /\ v \in 0..25
            /\ 30 * v <= since /\ since < 30 * (v + 1)
       /\ clock = 8 * 60 => v = 0
       /\ v = 0 => clock \in (8 * 60)..(8 * 60 + 29)
       /\ (clock >= 20 * 60 + 30 /\ clock < 21 * 60) => v = 25
       /\ v < 26

\* get_current_slot returned 25 at 20:59
C12_Witness ==
  /\ clock = 20 * 60 + 59
  /\ LatestCall("get_current_slot")
  /\ emitted[1].ret = 25

\* C13: get_elapsed_time at any minute of the day returns (0, 0) before 08:00;
\* from 08:00 on it returns the whole hours since 08:00, not clamped after 21:00,
\* and 3 if the minute of the hour is 30 or more, else 0: (1, 3) from 09:30 up to
\* 10:00.
C13_Elapsed ==
  LatestCall("get_elapsed_time") =>
      (LET hours == emitted[1].ret[1]
           tick == emitted[1].ret[2]
           since == clock - 8 * 60
       IN /\ Len(emitted[1].ret) = 2
          /\ clock < 8 * 60 => (hours = 0 /\ tick = 0)
          /\ clock >= 8 * 60 =>
               /\ 60 * hours <= since /\ since < 60 * (hours + 1)
               /\ tick = (IF clock % 60 >= 30 THEN 3 ELSE 0)
          /\ (clock >= 9 * 60 + 30 /\ clock < 10 * 60) => (hours = 1 /\ tick = 3)
          /\ tick \in {0, 3}
          /\ clock >= 21 * 60 => hours = 13 + (clock - 21 * 60) \div 60)

\* get_elapsed_time returned (15, 3) at 23:59
C13_Witness ==
  /\ clock = 23 * 60 + 59
  /\ LatestCall("get_elapsed_time")
  /\ emitted[1].ret = <<15, 3>>

\* C14: in the bar format_slot_bar returns, slot i takes characters 3i+1 and
\* 3i+2: the rest glyph for a rest slot, running or not; for a work slot the empty
\* glyph while editing and, while running, filled before the current slot, current
\* at it, empty after it; blanks for an unmarked slot. Work slots 0, 1, 2 running
\* at slot 1 show filled, current, empty, and a task without marks an all-blank bar.
C14_GlyphRule ==
  LatestCall("format_slot_bar") =>
    LET c == emitted[1]
        bar == c.ret
        work == ToSet(TaskAt(state, c.row).slots)
        rest == ToSet(TaskAt(state, c.row).rest_slots)
        glyph(i) == bar[3 * i + 1]
    IN /\ Len(bar) = 3 * 26 - 1
       /\ \A i \in 0..25 :
            /\ bar[3 * i + 2] = glyph(i)
            /\ i \in rest => glyph(i) = "rest"
            /\ (i \in work /\ ~c.is_running) => glyph(i) = "empty"
            /\ (i \in work /\ c.is_running /\ i < c.current_slot) => glyph(i) = "filled"
            /\ (i \in work /\ c.is_running /\ i = c.current_slot) => glyph(i) = "current"
            /\ (i \in work /\ c.is_running /\ i > c.current_slot) => glyph(i) = "empty"
            /\ (i \notin work /\ i \notin rest) => glyph(i) = " "
       /\ (work = {0, 1, 2} /\ rest = {} /\ c.is_running /\ c.current_slot = 1) =>
            (glyph(0) = "filled" /\ glyph(1) = "current" /\ glyph(2) = "empty")
       /\ (work = {} /\ rest = {}) => \A i \in 0..25 : glyph(i) = " "

\* the bar of work slots 0, 1, 2 was rendered running at 08:45
C14_Witness ==
  /\ LatestCall("format_slot_bar")
  /\ emitted[1].row = 0
  /\ emitted[1].is_running
  /\ clock = 8 * 60 + 45
  /\ TaskAt(state, 0).slots = <<0, 1, 2>>
  /\ TaskAt(state, 0).rest_slots = <<>>

\* C15: the process exits with status 0 when the loop has ended (day end or
\* quit), with a status other than 0 when there is no terminal at startup, the loop
\* never entered, and with a status other than 0, after one message, when a
\* failure left the main loop.
C15_ExitStatus ==
  [][pc' = "exited" =>
       LET status == emitted'[Len(emitted')].exit
       IN /\ Len(emitted') = 2
          /\ pc = "done" => status = 0
          /\ pc = "start" => status # 0
          /\ emitted'[1] = "print error" => status # 0]_vars

\* C16: the step that enters run mode leaves last_minute at -1 (unseen) and
\* emits no alert; the first run-mode iteration (main's now not yet assigned)
\* therefore finds last_minute at -1 and emits exactly one per-minute alert, right
\* after the render, whatever the minute; when the clock is then outside the window
\* the five end-of-day alerts follow it and nothing else does.
C16_FirstRunAlert ==
  [][/\ (state.mode = "edit" /\ state'.mode = "run") =>
          /\ last_minute' = -1
          /\ CountOf(emitted', "minute") + CountOf(emitted', "final") = 0
          /\ now' = -1
     /\ (state.mode = "run" /\ now = -1) =>
          /\ last_minute = -1
          /\ CountOf(emitted', "minute") = 1
          /\ emitted'[2] = "minute"
          /\ last_minute' = now' % 60
          /\ get_current_slot(clock') = -1 =>
               emitted' = <<"draw", "minute", "final", "final", "final", "final", "final">>]_vars

\* run mode was entered before 08:00 with something in the store, and the first
\* iteration ended the loop
C16_Witness ==
  /\ pc = "done"
  /\ now >= 0
  /\ Hour(now) < START_HOUR
  /\ emitted = <<"draw", "minute", "final", "final", "final", "final", "final">>
  /\ StoreContent(state, MAX_TASKS) > 0

\* C17: under an advancing clock, once the mode is run the loop eventually
\* ends; it ends only by a quit key at its input wait or in an iteration that read
\* the clock outside 08:00-21:00; and when the first run-mode iteration reads the
\* clock outside the window it ends the loop itself, without an input wait.
C17_RunTerminates ==
  /\ (state.mode = "run") ~> (pc = "done")
  /\ [][/\ pc' = "done" =>
            /\ state.mode = "run"
            /\ \/ get_current_slot(clock') = -1 /\ LastOf(emitted') = "final"
               \/ get_current_slot(clock') \in 0..25 /\ LastOf(emitted') = "getch"
        /\ (state.mode = "run" /\ now = -1 /\ get_current_slot(clock') = -1) =>
            /\ pc' = "done"
            /\ CountOf(emitted', "getch") = 0]_vars

\* the loop ended at day end in an iteration after the first, within the minute
\* of the iteration before
C17_Witness ==
  /\ pc = "done"
  /\ now >= 0
  /\ Hour(now) >= END_HOUR
  /\ emitted = <<"draw", "final", "final", "final", "final", "final">>

\* the state but for its tasks, and the tasks but for the one at row
C18_Cursor(st) == <<st.cursor_row, st.cursor_col, st.edit_focus, st.mode>>
C18_OtherTasks(st, r, row) ==
  \A i \in 0..4 : i # row => TaskAt(r, i) = TaskAt(st, i)

\* C18: in edit mode a printable key or Backspace on the name changes nothing
\* but the name of the task at cursor_row; Space, r and R on the slots change
\* nothing but whether slot cursor_col of that task is a work or a rest slot; the
\* arrows and Enter leave the tasks, the focus and the mode as they are; Tab
\* changes the focus alone, and two Tabs restore the state.
C18_Frame ==
  state.mode = "edit" =>
    \A key \in Keys :
      LET r == handle_edit_input(state, key).state
          row == state.cursor_row
          col == state.cursor_col
          before == TaskAt(state, row)
          after == TaskAt(r, row)
      IN /\ (state.edit_focus = "name" /\
               ((key >= 32 /\ key <= 126) \/ key \in {KEY_BACKSPACE, KEY_DEL, KEY_BS})) =>
              /\ C18_Cursor(r) = C18_Cursor(state)
              /\ C18_OtherTasks(state, r, row)
              /\ after.slots = before.slots
              /\ after.rest_slots = before.rest_slots
         /\ (state.edit_focus = "slots" /\ key \in {KEY_SPACE, KEY_r, KEY_R}) =>
              /\ C18_Cursor(r) = C18_Cursor(state)
              /\ C18_OtherTasks(state, r, row)
              /\ after.name = before.name
              /\ \A i \in 0..25 : i # col =>
                   /\ InList(i, after.slots) <=> InList(i, before.slots)
                   /\ InList(i, after.rest_slots) <=> InList(i, before.rest_slots)
         /\ key \in {KEY_UP, KEY_DOWN, KEY_LEFT, KEY_RIGHT, KEY_LF, KEY_CR, KEY_ENTER} =>
              /\ r.tasks = state.tasks
              /\ r.edit_focus = state.edit_focus
              /\ r.mode = state.mode
         /\ key \in {KEY_UP, KEY_DOWN, KEY_LF, KEY_CR, KEY_ENTER} =>
              r.cursor_col = col
         /\ key \in {KEY_LEFT, KEY_RIGHT} => r.cursor_row = row
         /\ key = KEY_TAB =>
              /\ r = [state EXCEPT !.edit_focus = r.edit_focus]
              /\ r.edit_focus # state.edit_focus
              /\ handle_edit_input(r, KEY_TAB).state = state

\* the cursor on an empty task above a task that has a name and marked slots
C18_Witness ==
  /\ state.mode = "edit"
  /\ state.cursor_row < EditRow
  /\ TaskAt(state, EditRow).name # <<>>
  /\ Len(TaskAt(state, EditRow).slots) + Len(TaskAt(state, EditRow).rest_slots) >= 2

\* no element of lst occurs in it twice
C19_NoRepeat(lst) == \A i, j \in 1..Len(lst) : lst[i] = lst[j] => i = j

\* C19: in every reachable state the store holds exactly 5 tasks, every index
\* in a work or rest list is one of 0..25 and occurs in its list once, so that
\* the count of the left panel's prefix, len(slots) + len(rest_slots), is the
\* number of distinct marked slots of the task.
C19_StoreWellFormed ==
  /\ Len(state.tasks) = 5
  /\ DOMAIN state.tasks = 1..5
  /\ \A n \in 1..5 :
       LET t == state.tasks[n]
       IN /\ ToSet(t.slots) \subseteq 0..25
          /\ ToSet(t.rest_slots) \subseteq 0..25
          /\ C19_NoRepeat(t.slots)
          /\ C19_NoRepeat(t.rest_slots)
          /\ total_task_slots(t) = Cardinality(ToSet(t.slots) \cup ToSet(t.rest_slots))

\* a task whose rest slots were marked from right to left, the cursor moved on
C19_Witness ==
  \E n \in 1..5 :
    /\ Len(state.tasks[n].rest_slots) >= 2
    /\ state.tasks[n].rest_slots[1] > state.tasks[n].rest_slots[2]
    /\ state.cursor_col > MaxMarkCol

\* C20: while the mode is edit an iteration renders and waits for input and
\* does nothing else: no alert, no reading of the clock, no end of the loop; q and
\* Q are typed onto the name in the name focus (dropped by a full name) and
\* ignored in the slots focus; and F5 is the only key after which the mode is run.
C20_EditNeverAlerts ==
  [][state.mode = "edit" =>
       /\ pc = "loop"
       /\ pc' = "loop"
       /\ emitted' = <<"draw", "getch">>
       /\ now' = now /\ clock' = clock /\ now = -1 /\ clock = -1
       /\ state'.mode = "run" => EditIteration(269)
       /\ \A key \in {113, 81} :
            LET r == handle_edit_input(state, key)
                name == CursorTask.name
            IN /\ ~r.ret
               /\ AfterEdit(r.state, r.ret).mode = "edit"
               /\ state.edit_focus = "slots" => r.state = state
               /\ state.edit_focus = "name" =>
                    r.state = SetTask(state, state.cursor_row,
                                      [CursorTask EXCEPT !.name =
                                         IF Len(name) < 15 THEN name \o <<key>> ELSE name])]_vars

\* still editing after q and Q were typed: they are the name under the cursor
C20_Witness ==
  /\ state.mode = "edit"
  /\ pc = "loop"
  /\ state.edit_focus = "name"
  /\ CursorTask.name = <<113, 81>>

====
